---- MODULE Spec2Model ----
(***************************************************************************)
(* CopenMed-DataValidator: the resumable batch-verification pipeline.      *)
(*                                                                         *)
(* The model follows src/checkpoint_manager.py (CheckpointManager),        *)
(* src/checkpoint.py (GestionCheckpoint), src/procesamiento_datoss.py      *)
(* (VerificadorRelaciones) and the part of src/main.py that drives them.   *)
(*                                                                         *)
(* The checkpoint file is a sequence of JSON tokens, so that a write that  *)
(* is cut short leaves a prefix on disk and json.load has something to     *)
(* reject. An operating-system process is modelled by pc: it is started    *)
(* (main), may reset the checkpoint, builds the verifier (which loads the  *)
(* checkpoint), calls procesar_datos, and can be terminated at any step.   *)
(***************************************************************************)
EXTENDS Integers, Sequences, FiniteSets, TLC

(***************************************************************************)
(* Bounds of the model.                                                    *)
(***************************************************************************)
\* identifiers of input rows are the integers 1..MaxId
MaxId == 12
\* the wall clock reads 0..MaxReloj (one unit = one second of strftime)
MaxReloj == 1
\* a checkpoint file present before the first process holds at most this many ids
MaxPrevios == 2
\* inputs of more rows than this get an always-affirming verifier
MaxVariado == 1
\* the verifier calls on identifiers 1..MaxSeguido are remembered across calls
MaxSeguido == 1
\* tokens that reach the file together (one block of the buffered writer)
Bloque == 16

(***************************************************************************)
(* Program constants.                                                      *)
(***************************************************************************)
\* procesar_datos: "if len(nuevos_ids_procesados) % 10 == 0"
FlushCada == 10
\* CONFIG["max_procesar"]
MaxProcesarConfig == 5
\* CONFIG["batch_size"]
BatchSizeConfig == 32

(***************************************************************************)
(* Values.                                                                 *)
(***************************************************************************)
\* str(fila[id_col]): the decimal text of an integer identifier
Str(n) == ToString(n)

\* Python's None and a present text value, for "ultimo_id_procesado"
None == [nulo |-> TRUE, v |-> ""]
Some(s) == [nulo |-> FALSE, v |-> s]

\* datetime.now().strftime("%Y-%m-%d %H:%M:%S") when the clock reads t
strftime(t) == "2025-01-01 00:00:0" \o ToString(t)

Min(a, b) == IF a <= b THEN a ELSE b

Rango(s) == {s[k] : k \in 1..Len(s)}

SinDuplicados(s) == \A a, b \in 1..Len(s) : s[a] = s[b] => a = b

(***************************************************************************)
(* JSON text: the tokens json.dump writes and json.load reads.             *)
(* Whitespace (indent=2, indent=4) carries no value and is not a token.    *)
(***************************************************************************)
TokP(c) == [k |-> "punt", s |-> c, n |-> 0]
TokS(c) == [k |-> "str", s |-> c, n |-> 0]
TokN(m) == [k |-> "num", s |-> "", n |-> m]
TokNull == [k |-> "null", s |-> "", n |-> 0]

EsP(t, c) == t.k = "punt" /\ t.s = c
EsS(t, c) == t.k = "str" /\ t.s = c

RECURSIVE DumpItems(_)
DumpItems(ids) ==
    IF Len(ids) = 0 THEN << >>
    ELSE IF Len(ids) = 1 THEN << TokS(ids[1]) >>
    ELSE << TokS(ids[1]), TokP(",") >> \o DumpItems(Tail(ids))

\* json_dump with the last id written as str(ultimo_id): None becomes "None"
json_dump_str(c) ==
    << TokP("{"),
       TokS("ultimo_id_procesado"), TokP(":"),
       TokS(IF c.ultimo.nulo THEN "None" ELSE c.ultimo.v), TokP(","),
       TokS("ids_procesados"), TokP(":"), TokP("[") >>
    \o DumpItems(c.ids) \o
    << TokP("]"), TokP(","),
       TokS("timestamp"), TokP(":"), TokS(c.ts), TokP(","),
       TokS("total_procesados"), TokP(":"), TokN(c.total),
       TokP("}") >>

\* json.dump(self.checkpoint, f, ...): keys in the dict's insertion order
json_dump(c) ==
    << TokP("{"),
       TokS("ultimo_id_procesado"), TokP(":"),
       IF c.ultimo.nulo THEN TokNull ELSE TokS(c.ultimo.v), TokP(","),
       TokS("ids_procesados"), TokP(":"), TokP("[") >>
    \o DumpItems(c.ids) \o
    << TokP("]"), TokP(","),
       TokS("timestamp"), TokP(":"), TokS(c.ts), TokP(","),
       TokS("total_procesados"), TokP(":"), TokN(c.total),
       TokP("}") >>

NoParse == [ok |-> FALSE, val |-> << >>, fin |-> 0]

\* the items of a JSON array of strings, from position p (an item is expected)
RECURSIVE LeerItems(_, _, _)
LeerItems(text, p, acc) ==
    IF p + 1 > Len(text) THEN NoParse
    ELSE IF text[p].k # "str" THEN NoParse
    ELSE IF EsP(text[p + 1], "]")
         THEN [ok |-> TRUE, val |-> Append(acc, text[p].s), fin |-> p + 2]
    ELSE IF EsP(text[p + 1], ",")
         THEN LeerItems(text, p + 2, Append(acc, text[p].s))
    ELSE NoParse

\* a JSON array of strings starting at position p; fin is the position after "]"
LeerLista(text, p) ==
    IF p + 1 > Len(text) \/ ~EsP(text[p], "[") THEN NoParse
    ELSE IF EsP(text[p + 1], "]") THEN [ok |-> TRUE, val |-> << >>, fin |-> p + 2]
    ELSE LeerItems(text, p + 1, << >>)

DecodeError == [ok |-> FALSE,
                val |-> [ultimo |-> None, ids |-> << >>, ts |-> "", total |-> 0]]

\* json.load(f): the dict the text denotes, or JSONDecodeError.
\* Every text the program leaves on disk is a prefix of a json_dump, so the
\* reader knows the four keys in the order json_dump writes them.
json_load(text) ==
    IF Len(text) < 8 THEN DecodeError
    ELSE LET l == LeerLista(text, 8)
             q == l.fin
         IN IF /\ EsP(text[1], "{")
               /\ EsS(text[2], "ultimo_id_procesado")
               /\ EsP(text[3], ":")
               /\ text[4].k \in {"null", "str"}
               /\ EsP(text[5], ",")
               /\ EsS(text[6], "ids_procesados")
               /\ EsP(text[7], ":")
               /\ l.ok
               /\ Len(text) = q + 8
               /\ EsP(text[q], ",")
               /\ EsS(text[q + 1], "timestamp")
               /\ EsP(text[q + 2], ":")
               /\ text[q + 3].k = "str"
               /\ EsP(text[q + 4], ",")
               /\ EsS(text[q + 5], "total_procesados")
               /\ EsP(text[q + 6], ":")
               /\ text[q + 7].k = "num"
               /\ EsP(text[q + 8], "}")
            THEN [ok |-> TRUE,
                  val |-> [ultimo |-> IF text[4].k = "null" THEN None
                                      ELSE Some(text[4].s),
                           ids |-> l.val,
                           ts |-> text[q + 3].s,
                           total |-> text[q + 7].n]]
            ELSE DecodeError

(***************************************************************************)
(* Checkpoint values and the two stores' pure parts.                       *)
(***************************************************************************)
\* CheckpointManager.default_checkpoint / GestionCheckpoint.crear_checkpoint
default_checkpoint(t) ==
    [ultimo |-> None, ids |-> << >>, ts |-> strftime(t), total |-> 0]

\* What open(path, "r") + json.load give: "ausente" when os.path.exists is
\* false, "io" when open raises, "json" when the text does not decode.
Lectura(f, perm) ==
    IF ~f.existe THEN [caso |-> "ausente", val |-> DecodeError.val]
    ELSE IF ~perm THEN [caso |-> "io", val |-> DecodeError.val]
    ELSE LET r == json_load(f.texto)
         IN IF r.ok THEN [caso |-> "ok", val |-> r.val]
            ELSE [caso |-> "json", val |-> DecodeError.val]

\* load_checkpoint with "except json.JSONDecodeError" only: a failing open
\* leaves the method as an exception
load_checkpoint_solo_json(f, perm, t) ==
    LET r == Lectura(f, perm)
    IN IF r.caso = "ok" THEN [raised |-> FALSE, val |-> r.val]
       ELSE [raised |-> r.caso = "io", val |-> default_checkpoint(t)]

\* CheckpointManager.load_checkpoint: "except Exception" covers both failures.
\* raised says whether an exception leaves the method.
load_checkpoint(f, perm, t) ==
    LET r == Lectura(f, perm)
    IN IF r.caso = "ok" THEN [raised |-> FALSE, val |-> r.val]
       ELSE [raised |-> FALSE, val |-> default_checkpoint(t)]

\* GestionCheckpoint.cargar_checkpoint: JSONDecodeError, then Exception
cargar_checkpoint(f, perm, t) ==
    LET r == Lectura(f, perm)
    IN IF r.caso = "ok" THEN [raised |-> FALSE, val |-> r.val]
       ELSE [raised |-> FALSE, val |-> default_checkpoint(t)]

\* the dict update_checkpoint builds from its arguments
update_checkpoint(ultimo_id, ids_procesados, t) ==
    [ultimo |-> Some(ultimo_id), ids |-> ids_procesados,
     ts |-> strftime(t), total |-> Len(ids_procesados)]

\* GestionCheckpoint.actualizar_checkpoint: three keys assigned, ids untouched
actualizar_checkpoint(c, ultimo_id_procesado, total_procesados, t) ==
    [c EXCEPT !.ultimo = Some(ultimo_id_procesado),
              !.total = total_procesados,
              !.ts = strftime(t)]

\* GestionCheckpoint.agregar_id_procesado: in memory only, no save
agregar_id_procesado(c, id_str) ==
    IF id_str \notin Rango(c.ids)
    THEN [c EXCEPT !.ids = Append(@, id_str), !.ultimo = Some(id_str)]
    ELSE c

\* open(path, "w"): the file exists and is empty
AbrirW == [existe |-> TRUE, texto |-> << >>]

\* what a later load would find on disk
EnDisco(f) == json_load(f.texto)
Decodable(f) == f.existe /\ EnDisco(f).ok
IdsEnDisco(f) == IF Decodable(f) THEN Rango(EnDisco(f).val.ids) ELSE {}

(***************************************************************************)
(* The verifier's answer and its classification (verificar_relacion).      *)
(* A text is a sequence of characters.                                     *)
(***************************************************************************)
Mayus(c) ==
    CASE c = "v" -> "V" [] c = "á" -> "Á" [] c = "l" -> "L" [] c = "i" -> "I"
      [] c = "d" -> "D" [] c = "o" -> "O" [] c = "n" -> "N" [] c = "x" -> "X"
      [] OTHER -> c

\* str.upper()
upper(s) == [k \in 1..Len(s) |-> Mayus(s[k])]

VALIDO == << "V", "Á", "L", "I", "D", "O" >>
INVALIDO == << "I", "N" >> \o VALIDO

\* the least position where sub occurs in s, 0 when it does not
Buscar(sub, s) ==
    LET hits == {p \in 1..(Len(s) - Len(sub) + 1) :
                    SubSeq(s, p, p + Len(sub) - 1) = sub}
    IN IF hits = {} THEN 0 ELSE CHOOSE p \in hits : \A q \in hits : p <= q

\* "sub in s"
Contiene(sub, s) == Buscar(sub, s) # 0

RECURSIVE lstrip(_)
lstrip(s) == IF Len(s) > 0 /\ s[1] = " " THEN lstrip(Tail(s)) ELSE s

RECURSIVE rstrip(_)
rstrip(s) ==
    IF Len(s) > 0 /\ s[Len(s)] = " " THEN rstrip(SubSeq(s, 1, Len(s) - 1)) ELSE s

\* str.strip()
strip(s) == lstrip(rstrip(s))

\* s.split(sep, 1): one or two parts
split1(s, sep) ==
    LET p == Buscar(sep, s)
    IN IF p = 0 THEN << s >>
       ELSE << SubSeq(s, 1, p - 1), SubSeq(s, p + Len(sep), Len(s)) >>

\* the answers of the service: status 200 with a text, another status, or an
\* exception inside the try (requests.post fails, or the body of the answer
\* is not JSON with a "response" text)
R200(t) == [caso |-> "200", texto |-> t]
RHttp == [caso |-> "http", texto |-> << >>]
RExc == [caso |-> "exc", texto |-> << >>]

Afirma == R200(VALIDO)

Respuestas ==
    { Afirma,
      R200(<< "v", "á", "l", "i", "d", "o" >>),
      R200(INVALIDO \o << " ", "x", " " >>),
      R200(INVALIDO),
      R200(<< "n", "o" >>),
      RHttp,
      RExc }

\* verificar_relacion without the test on status_code: an answer with another
\* status is read as a text without the validity marker
verificar_relacion_sin_status(id_relacion, resp) ==
    IF resp.caso \in {"200", "http"}
    THEN LET respuesta == resp.texto
             esValido == /\ Contiene(VALIDO, upper(respuesta))
                         /\ ~Contiene(INVALIDO, upper(respuesta))
             partes == split1(upper(respuesta), INVALIDO)
             justificacion == IF Len(partes) > 1 THEN strip(partes[2])
                              ELSE respuesta
         IN IF esValido
            THEN [id |-> id_relacion, campos |-> TRUE, validez |-> "válido",
                  justificacion |-> << >>]
            ELSE [id |-> id_relacion, campos |-> TRUE, validez |-> "inválido",
                  justificacion |-> justificacion]
    ELSE [id |-> id_relacion, campos |-> FALSE, validez |-> "error",
          justificacion |-> << "E", "r", "r", "o", "r" >>]

\* verificar_relacion with the validity test reduced to "VÁLIDO" in the text
verificar_relacion_sin_negacion(id_relacion, resp) ==
    IF resp.caso = "200"
    THEN LET respuesta == resp.texto
             esValido == Contiene(VALIDO, upper(respuesta))
             partes == split1(upper(respuesta), INVALIDO)
             justificacion == IF Len(partes) > 1 THEN strip(partes[2])
                              ELSE respuesta
         IN IF esValido
            THEN [id |-> id_relacion, campos |-> TRUE, validez |-> "válido",
                  justificacion |-> << >>]
            ELSE [id |-> id_relacion, campos |-> TRUE, validez |-> "inválido",
                  justificacion |-> justificacion]
    ELSE IF resp.caso = "http"
    THEN [id |-> id_relacion, campos |-> FALSE, validez |-> "error",
          justificacion |-> << "E", "r", "r", "o", "r", " ", "A", "P", "I" >>]
    ELSE [id |-> id_relacion, campos |-> FALSE, validez |-> "error",
          justificacion |-> << "E", "r", "r", "o", "r" >>]

\* verificar_relacion, from the response on: the dict it returns.
\* campos says whether the dict has the keys entidad1, relacion, entidad2.
verificar_relacion(id_relacion, resp) ==
    IF resp.caso = "200"
    THEN LET respuesta == resp.texto
             esValido == /\ Contiene(VALIDO, upper(respuesta))
                         /\ ~Contiene(INVALIDO, upper(respuesta))
             partes == split1(upper(respuesta), INVALIDO)
             justificacion == IF Len(partes) > 1 THEN strip(partes[2])
                              ELSE respuesta
         IN IF esValido
            THEN [id |-> id_relacion, campos |-> TRUE, validez |-> "válido",
                  justificacion |-> << >>]
            ELSE [id |-> id_relacion, campos |-> TRUE, validez |-> "inválido",
                  justificacion |-> justificacion]
    ELSE IF resp.caso = "http"
    THEN [id |-> id_relacion, campos |-> FALSE, validez |-> "error",
          justificacion |-> << "E", "r", "r", "o", "r", " ", "A", "P", "I" >>]
    ELSE [id |-> id_relacion, campos |-> FALSE, validez |-> "error",
          justificacion |-> << "E", "r", "r", "o", "r" >>]

(***************************************************************************)
(* Inputs and options.                                                     *)
(***************************************************************************)
\* a DataFrame is the sequence of its rows; a row is the record of its cells
Fila(n) == [id |-> n]

Consecutivos(a, b) == [k \in 1..(b - a + 1) |-> Fila(a + k - 1)]

\* the strength cell of a row, under whatever name the column has
Fuerza(fila) == "0." \o Str(fila.id)

\* the columns DataLoader._process_txt_file gives to its DataFrames, by the
\* number of fields of the first parsed record
ColumnasTxt(num_cols) ==
    IF num_cols = 7
    THEN {"Linea", "Codigo1", "Entidad", "Relación", "Codigo2",
          "ElementoRelacionado", "Score"}
    ELSE {"ID", "Entidad", "Relación", "Elemento Relacionado"}

\* tiene_fuerza
tiene_fuerza(cols) == "fuerza_relacion" \in cols

\* the arguments of the verificar_relacion call for a row: fuerza_relacion
\* is passed only when the data have that column
Peticion(fila, cols) ==
    [id |-> Str(fila.id),
     fuerza |-> IF tiene_fuerza(cols) THEN Some(Fuerza(fila)) ELSE None]

\* datos.columns of the 4-column format and of the 7-column TXT format
EsquemaOriginal == {"ID", "Entidad", "Relación", "Elemento Relacionado"}
EsquemaTxt ==
    {"Linea", "Entidad", "Relación", "ElementoRelacionado", "fuerza_relacion"}

\* the column sets of the inputs: the two formats, and the 4-column format
\* with one column taken out
Esquemas ==
    {EsquemaOriginal, EsquemaTxt, ColumnasTxt(7)}
       \cup {EsquemaOriginal \ {c} : c \in EsquemaOriginal}

\* the column checks with the loop over ["Entidad", "Relación"] stopping
\* after its first element
ColumnaFaltanteSoloEntidad(cols) ==
    IF "ID" \notin cols /\ "Linea" \notin cols
    THEN "No se encontró la columna de identificación en los datos."
    ELSE IF "Elemento Relacionado" \notin cols /\ "ElementoRelacionado" \notin cols
    THEN "No se encontró la columna del elemento relacionado en los datos."
    ELSE IF "Entidad" \notin cols
    THEN "No se encontró la columna 'Entidad' en los datos."
    ELSE ""

\* the column checks of procesar_datos, in the order it makes them: the
\* message of the exception raised, "" when every column is found
ColumnaFaltante(cols) ==
    IF "ID" \notin cols /\ "Linea" \notin cols
    THEN "No se encontró la columna de identificación en los datos."
    ELSE IF "Elemento Relacionado" \notin cols /\ "ElementoRelacionado" \notin cols
    THEN "No se encontró la columna del elemento relacionado en los datos."
    ELSE IF "Entidad" \notin cols
    THEN "No se encontró la columna 'Entidad' en los datos."
    ELSE IF "Relación" \notin cols
    THEN "No se encontró la columna 'Relación' en los datos."
    ELSE ""

\* the inputs of the runs: no row, one row, two rows, the same identifier on
\* two rows, and rows 1..MaxId
Entradas ==
    { << >>, << Fila(1) >>, << Fila(1), Fila(2) >>, << Fila(1), Fila(1) >>,
      Consecutivos(1, MaxId) }

\* the inputs of the runs that may be terminated
EntradasCrash == { << Fila(1) >>, Consecutivos(1, MaxId) }

\* config["max_procesar"]: 0 stands for a falsy value (no limit)
MaxProcesarOpciones == {0, MaxProcesarConfig}
\* --max is parsed with type=int and any non-zero value replaces the default
MaxProcesarNegativo == -MaxProcesarConfig

\* config["batch_size"]
BatchChico == 3
\* --batch is parsed with type=int and any non-zero value replaces the default
BatchNegativo == -BatchChico
BatchSizeOpciones == {BatchSizeConfig, BatchChico, BatchNegativo}

\* the answers the service may give to the rows of input d
RespuestasPara(d) == IF Len(d) <= MaxVariado THEN Respuestas ELSE {Afirma}

\* the identifiers of S as decimal texts of 1..n, ascending
RECURSIVE Ascendente(_, _)
Ascendente(S, n) ==
    IF n = 0 THEN << >>
    ELSE IF Str(n) \in S THEN Append(Ascendente(S, n - 1), Str(n))
    ELSE Ascendente(S, n - 1)

Reverso(s) == [k \in 1..Len(s) |-> s[Len(s) + 1 - k]]

\* list(a_set): the iteration order of a set of str is not specified; the
\* model offers two orders, and no formula reads the order of this part
list_set(S) == {Ascendente(S, MaxId), Reverso(Ascendente(S, MaxId))}

\* the filter without astype(str): an int identifier never equals a str of
\* the checkpoint, so no row is filtered out
FiltrarSinStr(d, ids_procesados) == d

\* datos[~datos[id_col].astype(str).isin(ids_procesados)]
Filtrar(d, ids_procesados) ==
    SelectSeq(d, LAMBDA f : Str(f.id) \notin ids_procesados)

\* datos_filtrados.head(max_procesar) under "if self.max_procesar and len(..) > ..";
\* head(n) of a negative n gives all rows but the last -n
Limitar(d, max_procesar) ==
    IF max_procesar # 0 /\ Len(d) > max_procesar
    THEN (IF max_procesar > 0 THEN SubSeq(d, 1, max_procesar)
          ELSE SubSeq(d, 1, Len(d) + max_procesar))
    ELSE d

\* datos_filtrados of procesar_datos for checkpoint c
Candidatos(d, c, max_procesar) == Limitar(Filtrar(d, Rango(c.ids)), max_procesar)

\* the outcome kept only when it is invalid
RetenerSoloInvalidos(lista, resultado) ==
    IF resultado.validez = "inválido" THEN Append(lista, resultado) ELSE lista

\* if resultado["validez"] in ["inválido", "error"]: resultados.append(resultado)
Retener(lista, resultado) ==
    IF resultado.validez \in {"inválido", "error"} THEN Append(lista, resultado)
    ELSE lista

\* the append skipped when the verification ended in an error
AnotarSinErrores(nuevos_ids_procesados, id_rel_fila, resultado) ==
    IF resultado.validez = "error" THEN nuevos_ids_procesados
    ELSE Append(nuevos_ids_procesados, id_rel_fila)

\* nuevos_ids_procesados.append(id_rel), whatever resultado says
Anotar(nuevos_ids_procesados, id_rel_fila, resultado) ==
    Append(nuevos_ids_procesados, id_rel_fila)

\* the flush test made before the append
TocaFlushAntes(nuevos_ids_procesados) ==
    (Len(nuevos_ids_procesados) - 1) % FlushCada = 0

\* the flush test after the append
TocaFlush(nuevos_ids_procesados) == Len(nuevos_ids_procesados) % FlushCada = 0

\* ultimo_id of the final update: str(datos_filtrados.iloc[-1][id_col])
UltimoIdFinal(datos_filtrados) == Str(datos_filtrados[Len(datos_filtrados)].id)

(***************************************************************************)
(* Record parser: DataLoader._parse_data_entry.  An entry is the sequence  *)
(* of its characters; a field of a parsed tuple is None or a text.         *)
(***************************************************************************)
Nulo == [nulo |-> TRUE, t |-> << >>]
Texto(s) == [nulo |-> FALSE, t |-> s]

\* \d, \s and [\d.] of the patterns
EsDigito(c) == c \in {"0", "1", "2", "3", "4", "5", "6", "7", "8", "9"}
EsEspacio(c) == c = " "
EsPuntaje(c) == EsDigito(c) \/ c = "."
NoCierre(c) == c # ")"
NoComa(c) == c # ","

\* where a greedy run of characters of class P that starts at p stops: the
\* first position from p on whose character is not in the class
Hasta(s, p, P(_)) ==
    LET fuera == {q \in p..(Len(s) + 1) : q = Len(s) + 1 \/ ~P(s[q])}
    IN CHOOSE q \in fuera : \A r \in fuera : q <= r

Es(s, p, c) == p >= 1 /\ p <= Len(s) /\ s[p] = c

Posiciones(s, c) == {q \in 1..Len(s) : s[q] = c}
Maximo(S) == CHOOSE x \in S : \A y \in S : y <= x
Minimo(S) == CHOOSE x \in S : \A y \in S : x <= y

NoMatch == [ok |-> FALSE, g |-> << >>, fin |-> 0]

\* re.match(r"^(\d+):\s*\((.*)\)\s*([\d.]+)(?:,)?$", entry): the groups.
\* What follows the closing parenthesis holds none, so it is the last one.
initial_match(entry) ==
    LET a == Hasta(entry, 1, EsDigito)
        c == Hasta(entry, a + 1, EsEspacio)
        d == Maximo(Posiciones(entry, ")"))
        e == Hasta(entry, d + 1, EsEspacio)
        f == Hasta(entry, e, EsPuntaje)
    IN IF /\ a > 1
          /\ Es(entry, a, ":")
          /\ Es(entry, c, "(")
          /\ Posiciones(entry, ")") # {}
          /\ d > c
          /\ f > e
          /\ (f = Len(entry) + 1 \/ (f = Len(entry) /\ entry[f] = ","))
       THEN [ok |-> TRUE,
             g |-> << SubSeq(entry, 1, a - 1), SubSeq(entry, c + 1, d - 1),
                      SubSeq(entry, e, f - 1) >>,
             fin |-> Len(entry)]
       ELSE NoMatch

\* text matches [^)]+(?:\([^)]*\)[^)]*)* : it is not empty, and before each
\* of its closing parentheses, after the one before, there is an opening
\* one, the first of them not at the start of the text
Anidado(text) ==
    /\ Len(text) > 0
    /\ \A x \in Posiciones(text, ")") :
          LET antes == {y \in Posiciones(text, ")") : y < x}
              desde == IF antes = {} THEN 2 ELSE Maximo(antes) + 1
          IN \E q \in desde..(x - 1) : text[q] = "("

\* re.match(r"^\s*(\d+)\s*\(([^)]+(?:\([^)]*\)[^)]*)*)\)\s*,", inner_content):
\* backtracking reaches the closing parentheses from left to right
code1_match(inner_content) ==
    LET s == inner_content
        a0 == Hasta(s, 1, EsEspacio)
        a == Hasta(s, a0, EsDigito)
        b == Hasta(s, a, EsEspacio)
        cierres == {q \in (b + 1)..Len(s) :
                      /\ s[q] = ")"
                      /\ Anidado(SubSeq(s, b + 1, q - 1))
                      /\ Es(s, Hasta(s, q + 1, EsEspacio), ",")}
        e == Minimo(cierres)
    IN IF a > a0 /\ Es(s, b, "(") /\ cierres # {}
       THEN [ok |-> TRUE,
             g |-> << SubSeq(s, a0, a - 1), SubSeq(s, b + 1, e - 1) >>,
             fin |-> Hasta(s, e + 1, EsEspacio)]
       ELSE NoMatch

\* re.match(r"^([^,]+)\s*,\s*(\d+)\s*\(([^)]+(?:\([^)]*\)[^)]*)*)\)\s*$", remaining)
relation_match(remaining) ==
    LET s == remaining
        h == Hasta(s, 1, NoComa)
        a0 == Hasta(s, h + 1, EsEspacio)
        a == Hasta(s, a0, EsDigito)
        b == Hasta(s, a, EsEspacio)
        e == Maximo(Posiciones(s, ")"))
    IN IF /\ h > 1
          /\ Es(s, h, ",")
          /\ a > a0
          /\ Es(s, b, "(")
          /\ Posiciones(s, ")") # {}
          /\ e > b
          /\ Hasta(s, e + 1, EsEspacio) = Len(s) + 1
          /\ Anidado(SubSeq(s, b + 1, e - 1))
       THEN [ok |-> TRUE,
             g |-> << SubSeq(s, 1, h - 1), SubSeq(s, a0, a - 1),
                      SubSeq(s, b + 1, e - 1) >>,
             fin |-> Len(s)]
       ELSE NoMatch

\* re.match(pattern_ext, entry)
match_ext(entry) ==
    LET s == entry
        a == Hasta(s, 1, EsDigito)
        c == Hasta(s, a + 1, EsEspacio)
        c2 == Hasta(s, c + 1, EsEspacio)
        d == Hasta(s, c2, EsDigito)
        d2 == Hasta(s, d, EsEspacio)
        e == Hasta(s, d2 + 1, NoCierre)
        f == Hasta(s, e + 1, EsEspacio)
        g0 == Hasta(s, f + 1, EsEspacio)
        h == Hasta(s, g0, NoComa)
        \* \s* gives back one space when [^,]+ would be left without text
        rs == IF h > g0 THEN g0 ELSE g0 - 1
        k == Hasta(s, h + 1, EsEspacio)
        m == Hasta(s, k, EsDigito)
        m2 == Hasta(s, m, EsEspacio)
        n == Hasta(s, m2 + 1, NoCierre)
        o == Hasta(s, n + 1, EsEspacio)
        p == Hasta(s, o + 1, EsEspacio)
        q == Hasta(s, p, EsPuntaje)
    IN IF /\ a > 1
          /\ Es(s, a, ":")
          /\ Es(s, c, "(")
          /\ d > c2
          /\ Es(s, d2, "(")
          /\ e > d2 + 1
          /\ Es(s, e, ")")
          /\ Es(s, f, ",")
          /\ rs > f
          /\ Es(s, h, ",")
          /\ m > k
          /\ Es(s, m2, "(")
          /\ n > m2 + 1
          /\ Es(s, n, ")")
          /\ Es(s, o, ")")
          /\ q > p
          /\ (q = Len(s) + 1 \/ (q = Len(s) /\ s[q] = ","))
       THEN [ok |-> TRUE,
             g |-> << SubSeq(s, 1, a - 1), SubSeq(s, c2, d - 1),
                      SubSeq(s, d2 + 1, e - 1), SubSeq(s, rs, h - 1),
                      SubSeq(s, k, m - 1), SubSeq(s, m2 + 1, n - 1),
                      SubSeq(s, p, q - 1) >>,
             fin |-> Len(s)]
       ELSE NoMatch

\* re.match(r"^(\d+):\s*\((.*)\)$", entry, flags=re.DOTALL)
match_orig(entry) ==
    LET a == Hasta(entry, 1, EsDigito)
        c == Hasta(entry, a + 1, EsEspacio)
    IN IF /\ a > 1
          /\ Es(entry, a, ":")
          /\ Es(entry, c, "(")
          /\ Len(entry) > c
          /\ entry[Len(entry)] = ")"
       THEN [ok |-> TRUE,
             g |-> << SubSeq(entry, 1, a - 1), SubSeq(entry, c + 1, Len(entry) - 1) >>,
             fin |-> Len(entry)]
       ELSE NoMatch

\* s.split(',', maxsplit=2)
split_coma(s) ==
    LET comas == Posiciones(s, ",")
        c1 == Minimo(comas)
        c2 == Minimo(comas \ {c1})
    IN IF comas = {} THEN << s >>
       ELSE IF Cardinality(comas) = 1
       THEN << SubSeq(s, 1, c1 - 1), SubSeq(s, c1 + 1, Len(s)) >>
       ELSE << SubSeq(s, 1, c1 - 1), SubSeq(s, c1 + 1, c2 - 1),
               SubSeq(s, c2 + 1, Len(s)) >>

\* a padding with empty strings in the place of None
RellenoVacio(content) ==
    [k \in 1..3 |-> IF k <= Len(content) THEN Texto(strip(content[k]))
                                          ELSE Texto(<< >>)]

\* content += [None] * (3 - len(content)), with the fields stripped
Relleno(content) ==
    [k \in 1..3 |-> IF k <= Len(content) THEN Texto(strip(content[k])) ELSE Nulo]

Nulos7 == [k \in 1..7 |-> Nulo]

NoTupla == [ok |-> FALSE, g |-> << >>]

\* the nested format: the tuple that the three matches give
AnidadaFin(m0, m1, m2) ==
    IF m2.ok
    THEN [ok |-> TRUE,
          g |-> << Texto(m0.g[1]), Texto(m1.g[1]), Texto(strip(m1.g[2])),
                   Texto(strip(m2.g[1])), Texto(m2.g[2]), Texto(strip(m2.g[3])),
                   Texto(m0.g[3]) >>]
    ELSE NoTupla

\* remaining = inner_content[pos_after_first:].strip()
AnidadaResto(m0, m1) ==
    IF m1.ok
    THEN AnidadaFin(m0, m1,
                    relation_match(strip(SubSeq(m0.g[2], m1.fin + 1, Len(m0.g[2])))))
    ELSE NoTupla

AnidadaDe(m0) == IF m0.ok THEN AnidadaResto(m0, code1_match(m0.g[2])) ELSE NoTupla

Anidada(entry) == AnidadaDe(initial_match(entry))

\* the standard extended format: the groups as they are
ExtendidaDe(m) ==
    IF m.ok THEN [ok |-> TRUE, g |-> [k \in 1..7 |-> Texto(m.g[k])]] ELSE NoTupla

Extendida(entry) == ExtendidaDe(match_ext(entry))

\* the original format: the identifier and the three fields
OriginalDe(m) ==
    IF m.ok THEN [ok |-> TRUE, g |-> << Texto(m.g[1]) >> \o Relleno(split_coma(m.g[2]))]
    ELSE NoTupla

Original(entry) == OriginalDe(match_orig(entry))

\* the tuple of the first format that matched, or the seven None
Primera(anidada, extendida, original) ==
    IF anidada.ok THEN anidada.g
    ELSE IF extendida.ok THEN extendida.g
    ELSE IF original.ok THEN original.g
    ELSE Nulos7

\* a parser that tries the standard extended format before the nested one
parse_data_entry_plano_primero(entry) ==
    Primera(Extendida(entry), Anidada(entry), Original(entry))

\* _parse_data_entry: nested, then standard extended, then original
parse_data_entry(entry) == Primera(Anidada(entry), Extendida(entry), Original(entry))

(***************************************************************************)
(* Source loader: DataLoader.  A DataFrame is the sequence of its column   *)
(* names and the sequence of its rows, each row the sequence of its cells. *)
(***************************************************************************)
DataFrame(columns, filas) == [columns |-> columns, filas |-> filas]

\* pd.DataFrame()
Vacio == DataFrame(<< >>, << >>)

\* the column names of _process_txt_file, in order
Columnas7 ==
    << "Linea", "Codigo1", "Entidad", "Relación", "Codigo2", "ElementoRelacionado",
       "Score" >>
Columnas4 == << "ID", "Entidad", "Relación", "Elemento Relacionado" >>

\* the number of columns of the data: the length of the longest tuple
Ancho(data) == Maximo({Len(data[k]) : k \in 1..Len(data)})

\* pd.DataFrame(data, columns=columns) raises ValueError when the data have
\* another number of columns than names were passed
NoCuadra(data, columns) == Len(data) > 0 /\ Ancho(data) # Len(columns)

\* pd.DataFrame(data, columns=columns): shorter tuples are filled with None
pd_DataFrame(data, columns) ==
    DataFrame(columns,
              [k \in 1..Len(data) |->
                 [c \in 1..Len(columns) |->
                    IF c <= Len(data[k]) THEN data[k][c] ELSE Nulo]])

\* _remove_garbage_data: df.dropna()
remove_garbage_data(df) ==
    DataFrame(df.columns,
              SelectSeq(df.filas, LAMBDA f : \A c \in 1..Len(f) : ~f[c].nulo))

\* a cell that is not a string makes re.match raise, and the except branch
\* of _parse_data_entry returns the seven None
parse_celda(x) == IF x.nulo THEN Nulos7 ELSE parse_data_entry(x.t)

Sin(s, a) == [k \in 1..(Len(s) - 1) |-> IF k < a THEN s[k] ELSE s[k + 1]]

\* the frame with column a replaced by the four parsed columns.  The parsed
\* tuples become a frame as wide as the longest of them; giving it the four
\* names raises unless it has four columns, and the except branch leaves df
\* as it was.
Expandir(df, a, parsed_columns) ==
    IF \E k \in 1..Len(df.filas) : Len(parsed_columns[k]) # 4 THEN df
    ELSE DataFrame(Sin(df.columns, a) \o Columnas4,
                   [k \in 1..Len(df.filas) |-> Sin(df.filas[k], a) \o parsed_columns[k]])

\* the parsing of column "A", when df has one
ParsearA(df) ==
    IF \A c \in 1..Len(df.columns) : df.columns[c] # "A" THEN df
    ELSE Expandir(df, CHOOSE c \in 1..Len(df.columns) : df.columns[c] = "A",
                  [k \in 1..Len(df.filas) |->
                     parse_celda(df.filas[k][CHOOSE c \in 1..Len(df.columns) :
                                                df.columns[c] = "A"])])

\* _process_dataframe with columns_to_keep None
process_dataframe(df, limpiar) ==
    ParsearA(IF limpiar THEN remove_garbage_data(df) ELSE df)

\* the name a header cell gives to its column; the code tells "A" from the rest
NombreDe(celda) == IF celda = Texto(<< "A" >>) THEN "A" ELSE "0"

\* pd.read_csv / pd.read_excel of the whole file: with header=None every
\* physical row is data and the column is named by custom_headers, or 0
LeerTodo(filas, has_header, custom_headers) ==
    IF has_header
    THEN DataFrame(<< NombreDe(filas[1]) >>,
                   [k \in 1..(Len(filas) - 1) |-> << filas[k + 1] >>])
    ELSE DataFrame(IF custom_headers # << >> THEN custom_headers ELSE << "0" >>,
                   [k \in 1..Len(filas) |-> << filas[k] >>])

\* the chunk of at most n rows that starts after row desde
Trozo(filas, desde, n) == SubSeq(filas, desde + 1, Min(desde + n, Len(filas)))

\* custom_headers when the option is given: main's ['A']
EncabezadoA == << "A" >>

\* the custom headers replace the extracted columns when there are as many
Encabezar(df, has_header, custom_headers) ==
    IF ~has_header /\ custom_headers # << >> /\ Len(custom_headers) = Len(df.columns)
    THEN DataFrame(custom_headers, df.filas)
    ELSE df

\* columns of _process_txt_file, by the first tuple of data
ColumnasDe(tuplas) == IF Len(tuplas[1]) = 7 THEN Columnas7 ELSE Columnas4

\* the frame a small text file gives: pd.DataFrame and _process_dataframe in
\* _process_txt_file, where "except Exception" returns pd.DataFrame(), then
\* the custom headers and _process_dataframe again in load_csv_or_excel
FrameTxt(tuplas, nombres, limpiar, has_header, custom_headers) ==
    IF NoCuadra(tuplas, nombres) THEN Vacio
    ELSE process_dataframe(
             Encabezar(process_dataframe(pd_DataFrame(tuplas, nombres), limpiar),
                       has_header, custom_headers),
             limpiar)

(***************************************************************************)
(* Source files.                                                           *)
(***************************************************************************)
\* 1:(a,b,a)
LineaOriginal == << "1", ":", "(", "a", ",", "b", ",", "a", ")" >>
\* 2:(a)
LineaUnCampo == << "2", ":", "(", "a", ")" >>
\* 3:(a,b,a,b)
LineaCuatroCampos ==
    << "3", ":", "(", "a", ",", "b", ",", "a", ",", "b", ")" >>
\* 4:(1( a),b,1(a))1 , which the nested and the standard extended patterns match
LineaExtendida ==
    << "4", ":", "(", "1", "(", " ", "a", ")", ",", "b", ",", "1", "(", "a", ")",
       ")", "1" >>
\* 5:(1(a(b)),b,1(a))1
LineaAnidada ==
    << "5", ":", "(", "1", "(", "a", "(", "b", ")", ")", ",", "b", ",", "1", "(",
       "a", ")", ")", "1" >>
\* 6:(a,)
LineaDosCampos == << "6", ":", "(", "a", ",", ")" >>
\* 7:(1(a),  ,1(a))1 , which only the standard extended pattern matches
LineaSoloExtendida ==
    << "7", ":", "(", "1", "(", "a", ")", ",", " ", " ", ",", "1", "(", "a", ")",
       ")", "1" >>
LineaBasura == << "x" >>
LineaBlanca == << " " >>

\* longest file, in lines or rows
MaxLineas == 3

Secuencias(S, desde, hasta) == UNION {[1..n -> S] : n \in desde..hasta}

\* the lines that the files combine, and those of the one-line files
LineasComunes == {LineaUnCampo, LineaCuatroCampos, LineaExtendida, LineaBasura}
LineasSueltas ==
    {LineaOriginal, LineaAnidada, LineaDosCampos, LineaSoloExtendida, LineaBlanca}

\* the text files
ArchivosTxt ==
    {[k \in 1..Len(f) |-> Texto(f[k])] :
       f \in Secuencias(LineasComunes, 1, MaxLineas)
               \cup Secuencias(LineasSueltas, 1, 1)}

\* the tables: one cell in each physical row
CeldasTabla == {EncabezadoA, LineaOriginal, LineaBasura}
ArchivosTabla ==
    {[k \in 1..Len(f) |-> Texto(f[k])] : f \in Secuencias(CeldasTabla, 2, MaxLineas)}

ChunkSizes == 1..MaxLineas

(***************************************************************************)
(* State.                                                                  *)
(***************************************************************************)
VARIABLES
    archivo,      \* checkpoint.json: [existe, texto]
    legible,      \* whether the file can be opened for reading
    reloj,        \* the wall clock, in seconds
    pc,           \* position of the process; "off" when none runs
    config,       \* the verifier's config: [max_procesar, batch_size]
    gck,          \* GestionCheckpoint.checkpoint (main.py)
    ck,           \* CheckpointManager.checkpoint
    alias,        \* ck["ids_procesados"] is the list object nuevos_ids_procesados
    datos,        \* argument of the current procesar_datos call: its rows
    columnas,     \* datos.columns
    filtrados,    \* datos_filtrados
    nuevos,       \* nuevos_ids_procesados
    resultados,   \* resultados
    i, j,         \* batch start and offset within the batch (0-based)
    id_rel,       \* id_rel of the row last verified
    fase,         \* which save is in progress
    pendiente,    \* the text json.dump is writing
    anterior,     \* the file as it was when the save in progress opened it
    ret,          \* value returned by the last procesar_datos call
    \* history, kept across processes
    llamadas,     \* identifiers submitted to the verifier in the current call
    peticiones,   \* the requests of those calls: [id, fuerza]
    respuestas,   \* what the service answered to each of them
    escribio,     \* this process has opened the checkpoint file for writing
    ck0,          \* ck when the current call began
    flushes,      \* saves completed in the current call
    vistos,       \* followed identifiers submitted to the verifier in earlier calls
    grabados,     \* identifiers that a completed save left on disk
    fin,          \* how the last process ended
    \* the DataLoader
    lpc,               \* position of the load
    loader,            \* self: [ext, filas, chunk_size, has_header, custom_headers]
    remove_garbage,    \* argument of load_csv_or_excel
    n_linea,           \* lines of the text file read so far
    line,              \* the last line given to the parser, stripped
    parsed,            \* what the parser returned for it
    data,              \* data of _process_txt_file
    problematic_lines, \* the numbers of the lines set aside
    columns,           \* columns of _process_txt_file
    salida,            \* what load_csv_or_excel returned: [tipo, df]
    gj,                \* rows the generator has handed out
    lotes,             \* the frames the generator has yielded
    \* two processes on one checkpoint path
    corridas           \* of each: [pc, datos, ck, filtrados, nuevos, pendiente, pos]

vDisco == << archivo, legible >>
vLocal == << datos, columnas, filtrados, nuevos, resultados, i, j, id_rel >>
vHist == << llamadas, peticiones, respuestas, escribio, ck0, flushes, vistos, grabados, fin >>
vMotor == << archivo, legible, reloj, pc, config, gck, ck, alias, datos, columnas,
             filtrados, nuevos, resultados, i, j, id_rel, fase, pendiente, anterior,
             ret, llamadas, peticiones, respuestas, escribio, ck0, flushes, vistos, grabados,
             fin >>
vCarga == << lpc, loader, remove_garbage, n_linea, line, parsed, data,
             problematic_lines, columns, salida, gj, lotes >>
vDos == << corridas >>
vars == << vMotor, vCarga, vDos >>

\* no DataLoader has been built
NoLoader == [ext |-> "", filas |-> << >>, chunk_size |-> 0, has_header |-> FALSE,
             custom_headers |-> << >>]
NoSalida == [tipo |-> "nada", df |-> Vacio]

\* a process that has not started
NoCorrida == [pc |-> "off", datos |-> << >>, ck |-> default_checkpoint(0),
              filtrados |-> << >>, nuevos |-> << >>, pendiente |-> << >>, pos |-> 0]

\* exc is the message of the exception that left the call, "" when it returned
NoRet == [hay |-> FALSE, res |-> << >>, total |-> 0, exc |-> ""]
NoCk == default_checkpoint(0)
NoConfig == [max_procesar |-> 0, batch_size |-> 1]
NoArchivo == [existe |-> FALSE, texto |-> << >>]

\* the clock readings a call of datetime.now() may see
Ahora == {t \in {reloj, reloj + 1} : t <= MaxReloj}

\* the identifiers whose verifier calls the history follows
Seguidos == {Str(n) : n \in 1..MaxSeguido}

\* a valid checkpoint file left by earlier processes over rows 1..p
ArchivoPrevio(p) ==
    [existe |-> TRUE,
     texto |-> json_dump(IF p = 0 THEN default_checkpoint(0)
                         ELSE update_checkpoint(Str(p), Ascendente({Str(n) : n \in 1..p}, p), 0))]

Init ==
    /\ \/ /\ archivo = NoArchivo
          /\ legible = TRUE
       \/ /\ \E p \in 0..MaxPrevios : archivo = ArchivoPrevio(p)
          /\ legible \in BOOLEAN
    /\ reloj = 0
    /\ pc = "off"
    /\ config = NoConfig
    /\ gck = NoCk
    /\ ck = NoCk
    /\ alias = FALSE
    /\ datos = << >>
    /\ columnas = {}
    /\ filtrados = << >>
    /\ nuevos = << >>
    /\ resultados = << >>
    /\ i = 0
    /\ j = 0
    /\ id_rel = ""
    /\ fase = "nada"
    /\ pendiente = << >>
    /\ anterior = NoArchivo
    /\ ret = NoRet
    /\ llamadas = << >>
    /\ peticiones = << >>
    /\ respuestas = << >>
    /\ escribio = FALSE
    /\ ck0 = NoCk
    /\ flushes = 0
    /\ vistos = IdsEnDisco(archivo) \cap Seguidos
    /\ grabados = IdsEnDisco(archivo)
    /\ fin = "ninguno"
    /\ lpc = "idle"
    /\ loader = NoLoader
    /\ remove_garbage = FALSE
    /\ n_linea = 0
    /\ line = << >>
    /\ parsed = << >>
    /\ data = << >>
    /\ problematic_lines = << >>
    /\ columns = << >>
    /\ salida = NoSalida
    /\ gj = 0
    /\ lotes = << >>
    /\ corridas = [r \in 1..2 |-> NoCorrida]

(***************************************************************************)
(* The end of a process: everything in memory is gone, the file stays.     *)
(***************************************************************************)
Apagar(como) ==
    /\ UNCHANGED << vCarga, vDos >>
    /\ pc' = "off"
    /\ fin' = como
    /\ config' = NoConfig
    /\ gck' = NoCk
    /\ ck' = NoCk
    /\ alias' = FALSE
    /\ datos' = << >>
    /\ columnas' = {}
    /\ filtrados' = << >>
    /\ nuevos' = << >>
    /\ resultados' = << >>
    /\ i' = 0
    /\ j' = 0
    /\ id_rel' = ""
    /\ fase' = "nada"
    /\ pendiente' = << >>
    /\ anterior' = NoArchivo
    /\ ret' = NoRet
    /\ llamadas' = << >>
    /\ peticiones' = << >>
    /\ respuestas' = << >>
    /\ escribio' = FALSE
    /\ ck0' = NoCk
    /\ flushes' = 0
    /\ vistos' = vistos \cup (Rango(llamadas) \cap Seguidos)
    /\ UNCHANGED << vDisco, reloj, grabados >>

\* main returns after procesar_datos, or leaves with sys.exit(1) from its
\* "except Exception" when the call raised
Salir ==
    /\ pc = "listo"
    /\ ret.hay
    /\ Apagar(IF ret.exc # "" THEN "abortado" ELSE "normal")

\* the process is killed, at any point
Terminar ==
    /\ pc # "off"
    /\ Apagar("terminado")

(***************************************************************************)
(* main: options, GestionCheckpoint(), optional reiniciar().               *)
(***************************************************************************)
\* t is what datetime.now() reads in this step
Main(reset, max_procesar, batch_size, t) ==
    /\ UNCHANGED << vCarga, vDos >>
    /\ pc = "off"
    /\ LET r == cargar_checkpoint(archivo, legible, t)
       IN IF r.raised
          THEN \* an exception leaves GestionCheckpoint(): the process dies
               Apagar("error")
          ELSE /\ config' = [max_procesar |-> max_procesar, batch_size |-> batch_size]
               /\ IF reset
                  THEN \* reiniciar(): crear_checkpoint(), guardar_checkpoint() up to open
                       /\ gck' = default_checkpoint(t)
                       /\ reloj' = t
                       /\ anterior' = archivo
                       /\ archivo' = AbrirW
                       /\ pendiente' = json_dump(gck')
                       /\ fase' = "reset"
                       /\ pc' = "escribe"
                       /\ vistos' = {}
                       /\ grabados' = {}
                       /\ escribio' = TRUE
                  ELSE /\ gck' = r.val
                       /\ reloj' = (IF Lectura(archivo, legible).caso = "ok" THEN reloj ELSE t)
                       /\ pc' = "datos"
                       /\ UNCHANGED << archivo, pendiente, anterior, fase, vistos,
                                       grabados, escribio >>
               /\ ret' = NoRet
               /\ UNCHANGED << legible, ck, alias, vLocal, llamadas, peticiones, respuestas, ck0,
                               flushes, fin >>

\* cargar_datos: the extension is not supported, or reading the file raised;
\* both paths end in sys.exit(1)
CargarDatosFalla ==
    /\ pc = "datos"
    /\ Apagar("abortado")

\* VerificadorRelaciones.__init__, _verificar_modelo: the service does not
\* answer the test request with status 200, and the process ends in exit(1)
ModeloNoDisponible ==
    /\ pc = "datos"
    /\ Apagar("sin modelo")

(***************************************************************************)
(* open(path, "w") has truncated the file; json.dump writes the text.      *)
(* The text reaches the file block by block.                               *)
(***************************************************************************)
Escribir ==
    /\ UNCHANGED << vCarga, vDos >>
    /\ pc = "escribe"
    /\ LET k == Min(Len(archivo.texto) + Bloque, Len(pendiente))
       IN
         /\ archivo' = [existe |-> TRUE, texto |-> SubSeq(pendiente, 1, k)]
         /\ IF k = Len(pendiente)
            THEN /\ pc' = "escrito"
                 /\ grabados' = grabados \cup IdsEnDisco(archivo')
                 /\ flushes' = IF fase \in {"flush", "final"} THEN flushes + 1 ELSE flushes
            ELSE /\ pc' = "escribe"
                 /\ UNCHANGED << grabados, flushes >>
    /\ UNCHANGED << legible, reloj, config, gck, ck, alias, vLocal, fase, pendiente,
                    anterior, ret, llamadas, peticiones, respuestas, escribio, ck0, vistos, fin >>

\* VerificadorRelaciones.__init__: CheckpointManager(path) loads the file
CrearVerificador(t) ==
    /\ UNCHANGED << vCarga, vDos >>
    /\ pc = "datos"
    /\ LET r == load_checkpoint(archivo, legible, t)
       IN IF r.raised
          THEN \* an exception leaves CheckpointManager(): the process dies
               Apagar("error")
          ELSE /\ ck' = r.val
               /\ reloj' = (IF Lectura(archivo, legible).caso = "ok" THEN reloj ELSE t)
               /\ alias' = FALSE
               /\ pc' = "listo"
               /\ UNCHANGED << vDisco, config, gck, vLocal, fase, pendiente, anterior,
                               ret, vHist >>

(***************************************************************************)
(* procesar_datos.                                                         *)
(***************************************************************************)
\* the call up to the loop: column checks, filter, limit, early return
ProcesarDatos(d, cols) ==
    /\ UNCHANGED << vCarga, vDos >>
    /\ pc = "listo"
    /\ datos' = d
    /\ columnas' = cols
    /\ LET cand == Candidatos(d, ck, config.max_procesar)
       IN IF ColumnaFaltante(cols) # ""
          THEN \* raise Exception(...): nothing has been computed yet
               /\ ret' = [hay |-> TRUE, res |-> << >>, total |-> 0,
                          exc |-> ColumnaFaltante(cols)]
               /\ pc' = "listo"
               /\ filtrados' = << >>
               /\ nuevos' = << >>
          ELSE
          /\ filtrados' = cand
          /\ IF Len(cand) = 0
             THEN /\ ret' = [hay |-> TRUE, res |-> << >>, total |-> 0, exc |-> ""]
                  /\ pc' = "listo"
                  /\ nuevos' = << >>
             ELSE /\ ret' = NoRet
                  \* range(0, len(datos_filtrados), batch_size) is empty
                  \* for a negative batch_size
                  /\ pc' = IF config.batch_size > 0 THEN "bucle" ELSE "final"
                  /\ nuevos' \in list_set(Rango(ck.ids))
    /\ resultados' = << >>
    /\ i' = 0
    /\ j' = 0
    /\ id_rel' = ""
    /\ llamadas' = << >>
    /\ peticiones' = << >>
    /\ respuestas' = << >>
    /\ ck0' = ck
    /\ flushes' = 0
    /\ vistos' = vistos \cup (Rango(llamadas) \cap Seguidos)
    \* nuevos_ids_procesados is a new list object
    /\ alias' = FALSE
    /\ UNCHANGED << vDisco, reloj, config, gck, ck, fase, pendiente,
                    anterior, escribio, grabados, fin >>

\* lote = datos_filtrados.iloc[i:i+batch_size]
Lote == SubSeq(filtrados, i + 1, Min(i + config.batch_size, Len(filtrados)))

\* one row of the inner loop: the verifier call, the result, the append and
\* the flush test; the loop indices move on to the next row
VerificarFila(resp) ==
    /\ UNCHANGED << vCarga, vDos >>
    /\ pc = "bucle"
    /\ LET fila == Lote[j + 1]
           id == Str(fila.id)
           resultado == verificar_relacion(id, resp)
           sigJ == IF j + 1 < Len(Lote) THEN j + 1 ELSE 0
           sigI == IF j + 1 < Len(Lote) THEN i ELSE i + config.batch_size
       IN /\ id_rel' = id
          /\ llamadas' = Append(llamadas, id)
          /\ peticiones' = Append(peticiones, Peticion(fila, columnas))
          /\ respuestas' = Append(respuestas, resp)
          /\ resultados' = Retener(resultados, resultado)
          /\ nuevos' = Anotar(nuevos, id, resultado)
          /\ ck' = IF alias THEN [ck EXCEPT !.ids = Anotar(@, id, resultado)] ELSE ck
          /\ i' = sigI
          /\ j' = sigJ
          /\ pc' = IF TocaFlush(nuevos') THEN "flush"
                   ELSE IF sigI < Len(filtrados) THEN "bucle" ELSE "final"
    /\ UNCHANGED << vDisco, reloj, config, gck, alias, datos, columnas, filtrados,
                    fase, pendiente, anterior, ret, escribio, ck0, flushes, vistos,
                    grabados, fin >>

\* update_checkpoint(ultimo_id, nuevos_ids_procesados) up to open(path, "w"):
\* the periodic flush inside the loop, or the final update after it
UpdateCheckpoint(t) ==
    /\ UNCHANGED << vCarga, vDos >>
    /\ pc \in {"flush", "final"}
    /\ ck' = update_checkpoint(IF pc = "flush" THEN id_rel
                               ELSE UltimoIdFinal(filtrados), nuevos, t)
    /\ reloj' = t
    /\ alias' = TRUE
    /\ anterior' = archivo
    /\ archivo' = AbrirW
    /\ pendiente' = json_dump(ck')
    /\ fase' = pc
    /\ pc' = "escribe"
    /\ escribio' = TRUE
    /\ UNCHANGED << legible, config, gck, vLocal, ret, llamadas, peticiones, respuestas, ck0,
                    flushes, vistos, grabados, fin >>

\* the save has returned: back to the caller
Continuar ==
    /\ UNCHANGED << vCarga, vDos >>
    /\ pc = "escrito"
    /\ pc' = CASE fase \in {"reset", "gestion"} -> "datos"
                [] fase = "flush" -> (IF i < Len(filtrados) THEN "bucle" ELSE "final")
                [] OTHER -> "listo"
    /\ ret' = IF fase = "final"
              THEN [hay |-> TRUE, res |-> resultados, total |-> Len(filtrados),
                    exc |-> ""]
              ELSE ret
    /\ fase' = "nada"
    /\ pendiente' = << >>
    /\ anterior' = NoArchivo
    /\ UNCHANGED << vDisco, reloj, config, gck, ck, alias, vLocal, vHist >>

(***************************************************************************)
(* The other operations of GestionCheckpoint, called on the object main    *)
(* built, with arguments of the caller's choosing.                         *)
(***************************************************************************)
\* agregar_id_procesado(id_elemento): the list grows in memory, nothing is saved
GestionAgregar(id_elemento) ==
    /\ UNCHANGED << vCarga, vDos >>
    /\ pc = "datos"
    /\ gck' = agregar_id_procesado(gck, Str(id_elemento))
    /\ gck' # gck
    /\ UNCHANGED << vDisco, reloj, pc, config, ck, alias, vLocal, fase, pendiente,
                    anterior, ret, vHist >>

\* actualizar_checkpoint(ultimo_id_procesado, total_procesados) up to open
GestionActualizar(ultimo_id_procesado, total_procesados, t) ==
    /\ UNCHANGED << vCarga, vDos >>
    /\ pc = "datos"
    /\ gck' = actualizar_checkpoint(gck, ultimo_id_procesado, total_procesados, t)
    /\ reloj' = t
    /\ anterior' = archivo
    /\ archivo' = AbrirW
    /\ pendiente' = json_dump(gck')
    /\ fase' = "gestion"
    /\ pc' = "escribe"
    /\ escribio' = TRUE
    /\ UNCHANGED << legible, config, ck, alias, vLocal, ret, llamadas, peticiones, respuestas,
                    ck0, flushes, vistos, grabados, fin >>

\* processes that run to their end
Next ==
    \/ \E reset \in BOOLEAN, m \in MaxProcesarOpciones, b \in BatchSizeOpciones,
          t \in Ahora : Main(reset, m, b, t)
    \/ \E t \in Ahora : Main(FALSE, MaxProcesarNegativo, BatchSizeConfig, t)
    \/ Escribir
    \/ \E t \in Ahora : CrearVerificador(t)
    \/ \E d \in Entradas : ProcesarDatos(d, EsquemaOriginal)
    \/ \E resp \in RespuestasPara(datos) : VerificarFila(resp)
    \/ \E t \in Ahora : UpdateCheckpoint(t)
    \/ Continuar
    \/ Salir

Spec == Init /\ [][Next]_vars

\* processes that may be terminated at any step
NextCrash ==
    \/ \E reset \in BOOLEAN, m \in MaxProcesarOpciones, t \in Ahora :
         Main(reset, m, BatchSizeConfig, t)
    \/ \E t \in Ahora : Main(FALSE, MaxProcesarConfig, BatchNegativo, t)
    \/ Escribir
    \/ \E t \in Ahora : CrearVerificador(t)
    \/ \E d \in EntradasCrash : ProcesarDatos(d, EsquemaOriginal)
    \/ \E resp \in RespuestasPara(datos) : VerificarFila(resp)
    \/ \E t \in Ahora : UpdateCheckpoint(t)
    \/ Continuar
    \/ Salir
    \/ Terminar

SpecCrash == Init /\ [][NextCrash]_vars

\* the arguments given to GestionCheckpoint's operations
MaxGestion == 2

\* processes that also use GestionCheckpoint's update operations
NextStore ==
    \/ \E m \in MaxProcesarOpciones, t \in Ahora : Main(FALSE, m, BatchSizeConfig, t)
    \/ Escribir
    \/ \E t \in Ahora : CrearVerificador(t)
    \/ \E d \in {<< Fila(1) >>, << Fila(1), Fila(2) >>} :
         ProcesarDatos(d, EsquemaOriginal)
    \/ VerificarFila(Afirma)
    \/ \E t \in Ahora : UpdateCheckpoint(t)
    \/ Continuar
    \/ Salir
    \/ \E n \in 1..MaxGestion : GestionAgregar(n)
    \/ \E n \in 1..MaxGestion, total \in 0..MaxGestion, t \in Ahora :
         GestionActualizar(Str(n), total, t)

SpecStore == Init /\ [][NextStore]_vars

\* the inputs of the runs whose rows get every answer of the service
EntradasVerif == { << Fila(1) >>, << Fila(2), Fila(1) >> }

\* processes over inputs of either format or with a column missing, whose
\* rows get any answer of the service, and whose input may fail to load
NextVerif ==
    \/ \E reset \in BOOLEAN, b \in {BatchSizeConfig, BatchNegativo}, t \in Ahora :
         Main(reset, MaxProcesarConfig, b, t)
    \/ Escribir
    \/ CargarDatosFalla
    \/ ModeloNoDisponible
    \/ \E t \in Ahora : CrearVerificador(t)
    \/ \E d \in EntradasVerif, cols \in Esquemas : ProcesarDatos(d, cols)
    \/ \E resp \in Respuestas : VerificarFila(resp)
    \/ \E t \in Ahora : UpdateCheckpoint(t)
    \/ Continuar
    \/ Salir

SpecVerif == Init /\ [][NextVerif]_vars

(***************************************************************************)
(* DataLoader: the construction, load_csv_or_excel and the generators.     *)
(***************************************************************************)
\* DataLoader(file_path, chunk_size, has_header, custom_headers)
NuevoLoader(ext, filas, chunk_size, has_header, custom_headers) ==
    /\ lpc = "idle"
    /\ loader' = [ext |-> ext, filas |-> filas, chunk_size |-> chunk_size,
                  has_header |-> has_header, custom_headers |-> custom_headers]
    /\ lpc' = "creado"
    /\ UNCHANGED << remove_garbage, n_linea, line, parsed, data, problematic_lines,
                    columns, salida, gj, lotes >>
    /\ UNCHANGED << vMotor, vDos >>

\* load_csv_or_excel on a file that is not .csv, .xlsx, .xls or .txt: the
\* ValueError is raised inside the try, and "except Exception" returns
\* pd.DataFrame()
CargarNoSoportado(rg) ==
    /\ lpc = "creado"
    /\ loader.ext \notin {"csv", "xlsx", "xls", "txt"}
    /\ remove_garbage' = rg
    /\ salida' = [tipo |-> "df", df |-> Vacio]
    /\ lpc' = "hecho"
    /\ UNCHANGED << loader, n_linea, line, parsed, data, problematic_lines, columns,
                    gj, lotes >>
    /\ UNCHANGED << vMotor, vDos >>

\* load_csv_or_excel on a .csv or .xlsx file
CargarTabla(rg) ==
    /\ lpc = "creado"
    /\ loader.ext \in {"csv", "xlsx", "xls"}
    /\ remove_garbage' = rg
    /\ LET full_df == LeerTodo(loader.filas, loader.has_header, loader.custom_headers)
       IN IF loader.chunk_size > Len(full_df.filas) \/ loader.ext # "csv"
          THEN /\ salida' = [tipo |-> "df", df |-> process_dataframe(full_df, rg)]
               /\ lpc' = "hecho"
          ELSE \* reader(self.file_path, chunksize=self.chunk_size)
               /\ salida' = [tipo |-> "gen", df |-> Vacio]
               /\ lpc' = "gen"
    /\ gj' = 0
    /\ UNCHANGED << loader, n_linea, line, parsed, data, problematic_lines, columns,
                    lotes >>
    /\ UNCHANGED << vMotor, vDos >>

\* load_csv_or_excel on a .txt file: _process_txt_file opens the file
CargarTxt(rg) ==
    /\ lpc = "creado"
    /\ loader.ext = "txt"
    /\ remove_garbage' = rg
    /\ data' = << >>
    /\ problematic_lines' = << >>
    /\ n_linea' = 0
    /\ lpc' = "lineas"
    /\ UNCHANGED << loader, line, parsed, columns, salida, gj, lotes >>
    /\ UNCHANGED << vMotor, vDos >>

\* one iteration of the loop over the lines
LeerLinea ==
    /\ lpc = "lineas"
    /\ n_linea < Len(loader.filas)
    /\ n_linea' = n_linea + 1
    /\ IF strip(loader.filas[n_linea + 1].t) = << >>
       THEN UNCHANGED << line, parsed, data, problematic_lines >>
       ELSE /\ line' = strip(loader.filas[n_linea + 1].t)
            /\ parsed' = parse_data_entry(line')
            /\ IF ~parsed'[1].nulo /\ ~parsed'[2].nulo
               THEN /\ data' = Append(data, parsed')
                    /\ UNCHANGED problematic_lines
               ELSE /\ problematic_lines' = Append(problematic_lines, n_linea + 1)
                    /\ UNCHANGED data
    /\ UNCHANGED << lpc, loader, remove_garbage, columns, salida, gj, lotes >>
    /\ UNCHANGED << vMotor, vDos >>

\* after the loop: the frame or the generator
FinTxt ==
    /\ lpc = "lineas"
    /\ n_linea = Len(loader.filas)
    /\ IF data = << >>
       THEN /\ salida' = [tipo |-> "df", df |-> Vacio]
            /\ lpc' = "hecho"
            /\ UNCHANGED columns
       ELSE /\ columns' = ColumnasDe(data)
            /\ IF Len(data) > loader.chunk_size
               THEN /\ salida' = [tipo |-> "gen", df |-> Vacio]
                    /\ lpc' = "gen"
               ELSE /\ salida' = [tipo |-> "df",
                                  df |-> FrameTxt(data, columns', remove_garbage,
                                                  loader.has_header,
                                                  loader.custom_headers)]
                    /\ lpc' = "hecho"
    /\ gj' = 0
    /\ UNCHANGED << loader, remove_garbage, n_linea, line, parsed, data,
                    problematic_lines, lotes >>
    /\ UNCHANGED << vMotor, vDos >>

\* next() on generator() of _process_txt_file; a ValueError of pd.DataFrame
\* leaves the generator towards the caller
SiguienteTxt ==
    /\ lpc = "gen"
    /\ loader.ext = "txt"
    /\ LET chunk == Trozo(data, gj, loader.chunk_size)
       IN IF gj >= Len(data)
          THEN /\ lpc' = "hecho"
               /\ UNCHANGED << gj, lotes >>
          ELSE IF NoCuadra(chunk, columns)
          THEN /\ lpc' = "roto"
               /\ UNCHANGED << gj, lotes >>
          ELSE /\ lotes' = Append(lotes, process_dataframe(pd_DataFrame(chunk, columns),
                                                           remove_garbage))
               /\ gj' = gj + loader.chunk_size
               /\ UNCHANGED lpc
    /\ UNCHANGED << loader, remove_garbage, n_linea, line, parsed, data,
                    problematic_lines, columns, salida >>
    /\ UNCHANGED << vMotor, vDos >>

\* next() on _process_chunks over pd.read_csv(path, chunksize=chunk_size),
\* which takes the first physical row as the header
SiguienteCsv ==
    /\ lpc = "gen"
    /\ loader.ext = "csv"
    /\ LET leido == LeerTodo(loader.filas, TRUE, << >>)
           chunk == DataFrame(leido.columns, Trozo(leido.filas, gj, loader.chunk_size))
       IN IF gj >= Len(leido.filas)
          THEN /\ lpc' = "hecho"
               /\ UNCHANGED << gj, lotes >>
          ELSE /\ lotes' = Append(lotes, process_dataframe(chunk, remove_garbage))
               /\ gj' = gj + loader.chunk_size
               /\ UNCHANGED lpc
    /\ UNCHANGED << loader, remove_garbage, n_linea, line, parsed, data,
                    problematic_lines, columns, salida >>
    /\ UNCHANGED << vMotor, vDos >>

\* loads of text files, tables and files of another format
NextLoader ==
    \/ \E f \in ArchivosTxt, c \in ChunkSizes : NuevoLoader("txt", f, c, FALSE, << >>)
    \/ \E ext \in {"csv", "xlsx"}, f \in ArchivosTabla, c \in ChunkSizes,
          h \in BOOLEAN, ch \in {<< >>, EncabezadoA} :
         NuevoLoader(ext, f, c, h, IF h THEN << >> ELSE ch)
    \/ \E f \in ArchivosTabla : NuevoLoader("dat", f, MaxLineas, TRUE, << >>)
    \/ \E rg \in BOOLEAN : CargarNoSoportado(rg)
    \/ \E rg \in BOOLEAN : CargarTabla(rg)
    \/ \E rg \in BOOLEAN : CargarTxt(rg)
    \/ LeerLinea
    \/ FinTxt
    \/ SiguienteTxt
    \/ SiguienteCsv

\* no checkpoint file is involved
InitLoader == Init /\ archivo = NoArchivo

SpecLoader == InitLoader /\ [][NextLoader]_vars

(***************************************************************************)
(* Two processes that run procesar_datos against the same checkpoint path. *)
(* Each has its own CheckpointManager and, while it saves, its own open    *)
(* file with its own position; the file is the one thing they share.       *)
(***************************************************************************)
\* what the single process of the other specifications leaves alone here
vUno == << legible, pc, config, gck, ck, alias, vLocal, fase, pendiente, anterior,
           ret, vHist >>

\* the inputs of the two processes
EntradasDos == { << Fila(1) >>, << Fila(1), Fila(2) >> }

\* a byte of a hole: what a write beyond the end of the file leaves before it
TokHueco == [k |-> "hueco", s |-> "", n |-> 0]

\* write(fd, bloque) at position p of a file: the tokens there are replaced,
\* the file grows as needed, the rest of it stays
EscribirEn(texto, p, bloque) ==
    [q \in 1..(IF Len(texto) > p + Len(bloque) THEN Len(texto) ELSE p + Len(bloque)) |->
        IF q > p /\ q <= p + Len(bloque) THEN bloque[q - p]
        ELSE IF q <= Len(texto) THEN texto[q]
        ELSE TokHueco]

\* the identifiers of the rows, as procesar_datos appends them
RECURSIVE IdsDe(_)
IdsDe(d) == IF Len(d) = 0 THEN << >> ELSE << Str(d[1].id) >> \o IdsDe(Tail(d))

\* VerificadorRelaciones(config): CheckpointManager(path) loads the file
Constructor(r, d, t) ==
    /\ corridas[r].pc = "off"
    /\ corridas' = [corridas EXCEPT ![r] =
                      [@ EXCEPT !.pc = "listo", !.datos = d,
                                !.ck = load_checkpoint(archivo, legible, t).val]]
    /\ reloj' = (IF Lectura(archivo, legible).caso = "ok" THEN reloj ELSE t)
    /\ UNCHANGED << archivo, vUno, vCarga >>

\* procesar_datos from the filter to the end of the loop, for a positive
\* batch_size and fewer than FlushCada identifiers: every row of
\* datos_filtrados is verified and its identifier appended
Procesar(r) ==
    /\ corridas[r].pc = "listo"
    /\ LET cand == Candidatos(corridas[r].datos, corridas[r].ck, MaxProcesarConfig)
       IN IF Len(cand) = 0
          THEN corridas' = [corridas EXCEPT ![r] = [@ EXCEPT !.pc = "fin"]]
          ELSE \E base \in list_set(Rango(corridas[r].ck.ids)) :
                 /\ Len(base) + Len(cand) < FlushCada
                 /\ corridas' = [corridas EXCEPT ![r] =
                                   [@ EXCEPT !.pc = "final", !.filtrados = cand,
                                             !.nuevos = base \o IdsDe(cand)]]
    /\ UNCHANGED << archivo, reloj, vUno, vCarga >>

\* the final update_checkpoint up to open(path, "w"): the file is truncated
\* and this process's position in it is 0
Abrir(r, t) ==
    /\ corridas[r].pc = "final"
    /\ corridas' = [corridas EXCEPT ![r] =
                      [@ EXCEPT !.pc = "escribe",
                                !.ck = update_checkpoint(
                                           UltimoIdFinal(corridas[r].filtrados),
                                           corridas[r].nuevos, t),
                                !.pendiente =
                                    json_dump(update_checkpoint(
                                        UltimoIdFinal(corridas[r].filtrados),
                                        corridas[r].nuevos, t)),
                                !.pos = 0]]
    /\ archivo' = AbrirW
    /\ reloj' = t
    /\ UNCHANGED << vUno, vCarga >>

\* one block of json.dump reaches the file at this process's position; the
\* last block is the one that close() flushes
Volcar(r) ==
    /\ corridas[r].pc = "escribe"
    /\ corridas' = [corridas EXCEPT ![r] =
                      [@ EXCEPT !.pos = Min(@ + Bloque, Len(corridas[r].pendiente)),
                                !.pc = IF corridas[r].pos + Bloque
                                            >= Len(corridas[r].pendiente)
                                       THEN "fin" ELSE "escribe"]]
    /\ archivo' = [existe |-> TRUE,
                   texto |-> EscribirEn(archivo.texto, corridas[r].pos,
                                        SubSeq(corridas[r].pendiente,
                                               corridas[r].pos + 1,
                                               corridas'[r].pos))]
    /\ UNCHANGED << reloj, vUno, vCarga >>

NextDos ==
    \/ \E r \in 1..2, d \in EntradasDos, t \in Ahora : Constructor(r, d, t)
    \/ \E r \in 1..2 : Procesar(r)
    \/ \E r \in 1..2, t \in Ahora : Abrir(r, t)
    \/ \E r \in 1..2 : Volcar(r)

\* the checkpoint file can be read
InitDos == Init /\ legible

SpecDos == InitDos /\ [][NextDos]_vars


(***************************************************************************)
(* Properties.                                                             *)
(***************************************************************************)
\* the rows of d whose identifier is already in checkpoint c
YaProcesados(d, c) == {k \in 1..Len(d) : Str(d[k].id) \in Rango(c.ids)}

\* a procesar_datos call has just returned
Retornado == pc = "listo" /\ ret.hay /\ ret.exc = ""

\* C1: a complete run over N rows with pairwise distinct identifiers, not cut
\* by the per-run limit, raises total_procesados by N minus the identifiers
\* already recorded, and a second call on the same rows has no candidate
C1_ExactlyOnce ==
    (Retornado /\ SinDuplicados(datos) /\ filtrados = Filtrar(datos, Rango(ck0.ids)))
    => /\ ck.total = ck0.total + Len(datos) - Cardinality(YaProcesados(datos, ck0))
       /\ Candidatos(datos, ck, config.max_procesar) = << >>

\* C2: over runs that may be terminated and restarted, no identifier is
\* submitted to the verifier again in a later call, and no identifier that a
\* completed save recorded is missing from the file when no process runs
C2_NuncaDosVeces ==
    legible => /\ \A k \in 1..Len(llamadas) : llamadas[k] \notin vistos
               /\ (pc = "off" => grabados \subseteq IdsEnDisco(archivo))

\* C3: a termination during a save leaves the file with its complete previous
\* content or its complete new content
C3_SaveAtomico ==
    [][(pc = "escribe" /\ pc' = "off")
       => (archivo' = anterior \/ archivo'.texto = pendiente)]_vars

\* the process is between two verifier calls of one procesar_datos call
EntreLlamadas ==
    /\ Len(llamadas) >= 1
    /\ \/ pc \in {"bucle", "flush"}
       \/ pc \in {"escribe", "escrito"} /\ fase = "flush" /\ i < Len(filtrados)

\* C4: a termination between two verifier calls leaves at most 9 identifiers
\* verified in that run out of the file
C4_VentanaNueve ==
    [][(EntreLlamadas /\ pc' = "off")
       => Cardinality(Rango(llamadas) \ IdsEnDisco(archivo')) <= FlushCada - 1]_vars

\* an update_checkpoint of the run has just returned
TrasFlush == pc = "escrito" /\ fase \in {"flush", "final"}

\* the candidates of the current call that the file records
CandidatosEnDisco ==
    {k \in 1..Len(filtrados) : Str(filtrados[k].id) \in IdsEnDisco(archivo)}

Techo(n, d) == (n + d - 1) \div d

C6_TotalEsLongitud ==
    Decodable(archivo)
    => EnDisco(archivo).val.total = Len(EnDisco(archivo).val.ids)

\* C7: the saved ids_procesados holds no identifier more than once
C7_SinRepetidos ==
    Decodable(archivo) => SinDuplicados(EnDisco(archivo).val.ids)

\* C8: in every saved checkpoint ultimo_id_procesado is null or an element
\* of ids_procesados
C8_UltimoEsMiembro ==
    Decodable(archivo)
    => \/ EnDisco(archivo).val.ultimo.nulo
       \/ EnDisco(archivo).val.ultimo.v \in Rango(EnDisco(archivo).val.ids)

\* C9: loading the file a save has just written gives back the checkpoint
\* that was saved: same last id, same ids in the same order, same timestamp,
\* same total
C9_IdaYVuelta ==
    (pc = "escrito" /\ legible)
    => LET guardado == IF fase \in {"reset", "gestion"} THEN gck ELSE ck
       IN /\ load_checkpoint(archivo, legible, reloj)
               = [raised |-> FALSE, val |-> guardado]
          /\ cargar_checkpoint(archivo, legible, reloj)
               = [raised |-> FALSE, val |-> guardado]

\* a final update of at least 10 ids has been saved
C9_Testigo ==
    /\ pc = "escrito"
    /\ legible
    /\ fase = "final"
    /\ Len(ck.ids) >= FlushCada
    /\ ~ck.ultimo.nulo

EsVacio(c) == c.ultimo.nulo /\ c.ids = << >> /\ c.total = 0

\* C10: a load of an absent, unreadable or undecodable file raises nothing
\* and gives an empty checkpoint, in both stores
C10_CargaSinFallo ==
    [][/\ fin' # "error"
       /\ (pc = "datos" /\ pc' = "listo" /\ Lectura(archivo, legible).caso # "ok")
          => EsVacio(ck')
       /\ (pc = "off" /\ pc' = "datos" /\ Lectura(archivo, legible).caso # "ok")
          => EsVacio(gck')]_vars

\* the verifier was built over a file that a cut save left undecodable
C10_Testigo ==
    /\ pc = "listo"
    /\ archivo.existe
    /\ legible
    /\ ~Decodable(archivo)
    /\ EsVacio(ck)

\* every row of d has its identifier in checkpoint c
TodosProcesados(d, c) == \A k \in 1..Len(d) : Str(d[k].id) \in Rango(c.ids)

\* C11: a procesar_datos call whose rows are all in ids_procesados returns
\* ([], 0), calls the verifier for no row and leaves the checkpoint in memory
\* and the checkpoint file as they were
C11_SinCandidatos ==
    [][(/\ pc = "listo"
        /\ pc' # "off"
        /\ ColumnaFaltante(columnas') = ""
        /\ TodosProcesados(datos', ck))
       => /\ ret' = [hay |-> TRUE, res |-> << >>, total |-> 0, exc |-> ""]
          /\ pc' = "listo"
          /\ llamadas' = << >>
          /\ ck' = ck
          /\ archivo' = archivo
          /\ escribio' = escribio]_vars

\* a call over rows that an earlier run recorded has returned
C11_Testigo ==
    /\ Retornado
    /\ Len(datos) > 0
    /\ TodosProcesados(datos, ck)
    /\ ret.total = 0
    /\ archivo.existe

\* the rows of the current call that its starting checkpoint does not hold
SinProcesar == Filtrar(datos, Rango(ck0.ids))

\* C12: with a per-run limit M configured and more than M unprocessed rows, a
\* completed run has verified exactly the first M unprocessed rows, in input
\* order, and the file records those M identifiers and no later row's
C12_PrimerosM ==
    (/\ Retornado
     /\ legible
     /\ config.max_procesar # 0
     /\ Len(SinProcesar) > config.max_procesar)
    => /\ llamadas = [k \in 1..config.max_procesar |-> Str(SinProcesar[k].id)]
       /\ \A k \in 1..Len(SinProcesar) :
             Str(SinProcesar[k].id) \in IdsEnDisco(archivo)
             <=> Str(SinProcesar[k].id) \in Rango(llamadas)

\* what procesar_datos needs of its input: one of the columns of alguna, and
\* how an error message refers to that column
Requisitos ==
    { [alguna |-> {"ID", "Linea"}, nombre |-> "de identificación"],
      [alguna |-> {"Elemento Relacionado", "ElementoRelacionado"},
       nombre |-> "del elemento relacionado"],
      [alguna |-> {"Entidad"}, nombre |-> "'Entidad'"],
      [alguna |-> {"Relación"}, nombre |-> "'Relación'"] }

Faltan(cols) == {r \in Requisitos : r.alguna \cap cols = {}}

\* C13: a procesar_datos call on an input without the identifier column, the
\* related-element column, Entidad or Relación raises an error that names a
\* missing column, with no verifier call and no change to the checkpoint in
\* memory or on disk
C13_ColumnaAusente ==
    [][(pc = "listo" /\ pc' # "off" /\ Faltan(columnas') # {})
       => /\ ret'.hay
          /\ \E r \in Faltan(columnas') :
                ret'.exc = "No se encontró la columna " \o r.nombre \o " en los datos."
          /\ pc' = "listo"
          /\ llamadas' = << >>
          /\ ck' = ck
          /\ archivo' = archivo
          /\ escribio' = escribio]_vars

\* a call on rows not yet processed, without one of the columns, has raised
C13_Testigo ==
    /\ pc = "listo"
    /\ ret.hay
    /\ ret.exc # ""
    /\ Faltan(columnas) # {}
    /\ ~TodosProcesados(datos, ck)

\* C14: a process that ends because its input could not be loaded or lacked a
\* column has not opened the checkpoint file for writing
C14_AbortoSinEscritura ==
    [][(pc # "off" /\ pc' = "off" /\ fin' = "abortado") => ~escribio]_vars

\* the verifier call of the step that has just been taken
UltimaLlamada == llamadas'[Len(llamadas')]

\* C15: after each verifier call, whatever the answer, the row's identifier
\* is appended to the working list; when the run has returned every
\* identifier it verified is in the file; and with a readable file no
\* identifier verified in an earlier call is submitted again
C15_AnotadoSiempre ==
    [][/\ (pc = "bucle" /\ Len(llamadas') = Len(llamadas) + 1)
          => nuevos' = Append(nuevos, UltimaLlamada)
       /\ Retornado' => Rango(llamadas') \subseteq IdsEnDisco(archivo')
       /\ legible => \A k \in 1..Len(llamadas') : llamadas'[k] \notin vistos']_vars

\* a run in which a verification failed has returned, and the failed
\* record's identifier is in the file
C15_Testigo ==
    /\ Retornado
    /\ \E k \in 1..Len(llamadas) :
          /\ respuestas[k].caso \in {"http", "exc"}
          /\ llamadas[k] \in IdsEnDisco(archivo)

\* the answer to the verifier call of the step that has just been taken
UltimaRespuesta == respuestas'[Len(respuestas')]

\* C16: a verifier call that ends in an exception or in a status other than
\* 200 adds an error outcome for its row and the run goes on; a run that has
\* made a call and returned has called the verifier once for each candidate,
\* in candidate order
C16_ErrorNoAborta ==
    [][/\ (/\ pc = "bucle"
           /\ Len(llamadas') = Len(llamadas) + 1
           /\ UltimaRespuesta.caso \in {"http", "exc"})
          => /\ Len(resultados') = Len(resultados) + 1
             /\ resultados'[Len(resultados')].id = UltimaLlamada
             /\ resultados'[Len(resultados')].validez = "error"
             /\ pc' \in {"bucle", "flush", "final"}
             /\ ret' = NoRet
       /\ (Retornado' /\ Len(llamadas') > 0)
          => llamadas' = [k \in 1..Len(filtrados') |-> Str(filtrados'[k].id)]]_vars

\* a run has returned whose first verifier call failed and whose second
\* candidate was verified after it
C16_Testigo ==
    /\ Retornado
    /\ Len(llamadas) = 2
    /\ respuestas[1].caso \in {"http", "exc"}
    /\ respuestas[2].caso = "200"
    /\ Len(ret.res) >= 1
    /\ ret.res[1].validez = "error"

\* the identifiers of the candidates of the current call
IdsCandidatos == {Str(filtrados[k].id) : k \in 1..Len(filtrados)}

\* C17: when a run with candidates has returned, the file holds exactly the
\* identifiers the run started with and those of its candidates, and its
\* last id is the last candidate's
C17_EstadoFinal ==
    (Retornado /\ Len(filtrados) > 0)
    => /\ Decodable(archivo)
       /\ IdsEnDisco(archivo) = Rango(ck0.ids) \cup IdsCandidatos
       /\ EnDisco(archivo).val.ultimo = Some(Str(filtrados[Len(filtrados)].id))

\* the outcome of each verifier call of the current procesar_datos call
Salidas == [k \in 1..Len(llamadas) |-> verificar_relacion(llamadas[k], respuestas[k])]

\* the rows of the input that the starting checkpoint does not hold, cut
\* to the per-run limit
Considerados ==
    LET sin == {k \in 1..Len(datos) : Str(datos[k].id) \notin Rango(ck0.ids)}
        M == config.max_procesar
    IN IF M # 0 /\ Cardinality(sin) > M
       THEN (IF M > 0 THEN M ELSE IF Cardinality(sin) + M > 0
                                 THEN Cardinality(sin) + M ELSE 0)
       ELSE Cardinality(sin)

\* C18: procesar_datos returns the outcomes of its verifier calls that are
\* not valid, in the order of the calls, all of them invalid or error, and
\* the number of candidates left by the filter and the limit
C18_SoloNoValidos ==
    Retornado
    => /\ ret.res = SelectSeq(Salidas, LAMBDA r : r.validez # "válido")
       /\ \A k \in 1..Len(ret.res) : ret.res[k].validez \in {"inválido", "error"}
       /\ ret.total = Considerados
       /\ ret.total = Len(filtrados)

\* a run over two candidates has returned with one valid outcome left out
\* and an error outcome kept
C18_Testigo ==
    /\ Retornado
    /\ ret.total = 2
    /\ Len(ret.res) = 1
    /\ ret.res[1].validez = "error"
    /\ \E k \in 1..2 : Salidas[k].validez = "válido"

\* text holds marker m, letter case apart
Marca(m, texto) ==
    \E p \in 1..(Len(texto) - Len(m) + 1) :
       \A q \in 1..Len(m) : Mayus(texto[p + q - 1]) = m[q]

\* the class the claim gives to an answer of the service
Clase(r) ==
    IF r.caso # "200" THEN "error"
    ELSE IF Marca(VALIDO, r.texto) /\ ~Marca(INVALIDO, r.texto) THEN "válido"
    ELSE "inválido"

\* C19: an answer with status 200 is classified valid exactly when its text
\* holds the marker VÁLIDO and not the marker INVÁLIDO (letter case apart),
\* every other answer with status 200 invalid, and every exception or other
\* status error; each verifier call gets exactly one of the three classes,
\* and the run keeps the outcome unless it is valid
C19_Particion ==
    [][(pc = "bucle" /\ Len(llamadas') = Len(llamadas) + 1)
       => /\ verificar_relacion(UltimaLlamada, UltimaRespuesta).validez
               = Clase(UltimaRespuesta)
          /\ IF Clase(UltimaRespuesta) = "válido"
             THEN resultados' = resultados
             ELSE /\ Len(resultados') = Len(resultados) + 1
                  /\ resultados'[Len(resultados')].validez = Clase(UltimaRespuesta)]_vars

\* an answer that holds INVÁLIDO, and so VÁLIDO inside it, was classified
\* invalid
C19_Testigo ==
    /\ Len(llamadas) >= 1
    /\ Marca(VALIDO, respuestas[1].texto)
    /\ Marca(INVALIDO, respuestas[1].texto)
    /\ Len(resultados) >= 1
    /\ resultados[1].validez = "inválido"

\* the text after the first occurrence of marker m in texto, trimmed; the
\* whole text when m does not occur
TrasMarca(m, texto) ==
    LET donde == {p \in 1..(Len(texto) - Len(m) + 1) :
                    \A q \in 1..Len(m) : Mayus(texto[p + q - 1]) = m[q]}
    IN IF donde = {} THEN texto
       ELSE LET p == CHOOSE x \in donde : \A y \in donde : x <= y
            IN strip(SubSeq(texto, p + Len(m), Len(texto)))

\* C20: the justification of an invalid outcome is the text of the answer
\* after the marker INVÁLIDO, as the service wrote it apart from trimming,
\* or the whole answer when the marker does not occur
C20_Justificacion ==
    [][(/\ pc = "bucle"
        /\ Len(llamadas') = Len(llamadas) + 1
        /\ Clase(UltimaRespuesta) = "inválido")
       => /\ Len(resultados') = Len(resultados) + 1
          /\ resultados'[Len(resultados')].justificacion
               = TrasMarca(INVALIDO, UltimaRespuesta.texto)]_vars

\* C21: the outcome of every verifier call has an empty justification
\* exactly when its validity is valid
C21_VaciaSiiValido ==
    [][(pc = "bucle" /\ Len(llamadas') = Len(llamadas) + 1)
       => LET r == verificar_relacion(UltimaLlamada, UltimaRespuesta)
          IN (r.justificacion = << >>) <=> (r.validez = "válido")]_vars

\* the identifiers of the candidates, in the order of the input
IdsEnOrden == [k \in 1..Len(filtrados) |-> Str(filtrados[k].id)]

\* C22: a step of the run makes at most one verifier call, the calls made
\* so far are a prefix of the candidates in input order, and when the run
\* has returned there is exactly one call for each candidate, whatever the
\* batch size
C22_UnaPorCandidato ==
    /\ pc \in {"bucle", "flush", "final", "escribe", "escrito"}
         => /\ Len(llamadas) <= Len(filtrados)
            /\ llamadas = SubSeq(IdsEnOrden, 1, Len(llamadas))
    /\ Retornado => llamadas = IdsEnOrden

\* C23: a batch with the columns the loader gives to 7-field text records
\* passes the column checks, and the request of each of its rows carries
\* the row's strength
C23_FuerzaEnPeticion ==
    /\ (columnas = ColumnasTxt(7) /\ ret.hay) => ret.exc = ""
    /\ columnas = ColumnasTxt(7)
         => \A k \in 1..Len(peticiones) :
               \E q \in 1..Len(filtrados) :
                  /\ peticiones[k].id = Str(filtrados[q].id)
                  /\ peticiones[k].fuerza = Some(Fuerza(filtrados[q]))

\* the load has ended: a frame was returned, or the generator that was
\* returned is exhausted
Cargado == lpc = "hecho"

\* the frames the caller of the load has received
Batches == IF salida.tipo = "df" THEN << salida.df >> ELSE lotes

\* the rows of a sequence of frames, one after the other
RECURSIVE Concatenar(_)
Concatenar(frames) ==
    IF frames = << >> THEN << >> ELSE frames[1].filas \o Concatenar(Tail(frames))

\* C24: the load of a file whose extension is not a supported format ends
\* in an error given to the caller, and returns no frame
C24_FormatoNoSoportado ==
    (Cargado /\ loader.ext \notin {"csv", "xlsx", "xls", "txt"})
    => /\ salida.tipo = "error"
       /\ Batches = << >>

\* the table as a full read gives it, and a table none of whose columns
\* is parsed
Tabla == LeerTodo(loader.filas, loader.has_header, loader.custom_headers)
TablaLlana ==
    /\ loader.ext \in {"csv", "xlsx"}
    /\ loader.custom_headers = << >>
    /\ \A k \in 1..Len(loader.filas) : loader.filas[k] # Texto(EncabezadoA)

\* C25: a table of R rows that fits in chunk_size is returned as one frame
\* of the R rows; a longer one comes in frames of at most chunk_size rows
\* that together are the R rows in their order
C25_TablaEnLotes ==
    (Cargado /\ TablaLlana)
    => IF Len(Tabla.filas) <= loader.chunk_size
       THEN /\ Len(Batches) = 1
            /\ Batches[1].filas = Tabla.filas
       ELSE /\ \A k \in 1..Len(Batches) : Len(Batches[k].filas) <= loader.chunk_size
            /\ Concatenar(Batches) = Tabla.filas

\* what the parser gives for each line of the file, and for each cell
Parseadas == [k \in 1..Len(loader.filas) |-> parse_celda(Texto(strip(loader.filas[k].t)))]
CeldasParseadas == [k \in 1..Len(loader.filas) |-> parse_celda(loader.filas[k])]

\* a tuple with its identifier and its first content field
Aceptable(t) == ~t[1].nulo /\ ~t[2].nulo

\* the tuples of the lines that parse with identifier and first field
Buenas == SelectSeq(Parseadas, Aceptable)

\* row starts with the fields of tuple t
Lleva(row, t) == Len(row) >= Len(t) /\ SubSeq(row, 1, Len(t)) = t

\* C26: when the load of a text file is over, rows with empty cells being
\* kept, the frames have the columns that the first accepted line fixes,
\* and their rows are the accepted lines, each once and in file order,
\* whatever their number of fields
C26_LineasEnLotes ==
    (lpc \in {"hecho", "roto"} /\ loader.ext = "txt" /\ ~remove_garbage)
    => /\ lpc = "hecho"
       /\ Len(Concatenar(Batches)) = Len(Buenas)
       /\ \A k \in 1..Len(Batches) :
             Buenas # << >> => Batches[k].columns = ColumnasDe(Buenas)
       /\ \A k \in 1..Len(Buenas) :
             k <= Len(Concatenar(Batches)) => Lleva(Concatenar(Batches)[k], Buenas[k])

\* an entry that no format matches
EsBasura(t) == \A c \in 1..Len(t) : t[c].nulo

\* a complete record of the original format
Completa4(t) == Len(t) = 4 /\ \A c \in 1..4 : ~t[c].nulo

\* a text file with malformed lines whose other lines are complete records
\* of the original format
TxtConBasura ==
    /\ loader.ext = "txt"
    /\ \E k \in 1..Len(Parseadas) :
          EsBasura(Parseadas[k]) /\ strip(loader.filas[k].t) # << >>
    /\ \E k \in 1..Len(Parseadas) : Completa4(Parseadas[k])
    /\ \A k \in 1..Len(Parseadas) : EsBasura(Parseadas[k]) \/ Completa4(Parseadas[k])

\* a sheet read into the column A, with malformed cells, whose other cells
\* are complete records of the original format
HojaConBasura ==
    /\ loader.ext = "xlsx"
    /\ ~loader.has_header
    /\ loader.custom_headers = EncabezadoA
    /\ \E k \in 1..Len(CeldasParseadas) : EsBasura(CeldasParseadas[k])
    /\ \E k \in 1..Len(CeldasParseadas) : Completa4(CeldasParseadas[k])
    /\ \A k \in 1..Len(CeldasParseadas) :
          EsBasura(CeldasParseadas[k]) \/ Completa4(CeldasParseadas[k])

\* C27: malformed lines are set aside and counted, malformed cells are
\* left out, and the load gives the other records as the parser read them
C27_BasuraDescartada ==
    /\ (lpc \in {"hecho", "roto"} /\ TxtConBasura)
         => /\ lpc = "hecho"
            /\ Concatenar(Batches) = Buenas
            /\ Len(problematic_lines)
                 = Cardinality({k \in 1..Len(Parseadas) :
                                  /\ EsBasura(Parseadas[k])
                                  /\ strip(loader.filas[k].t) # << >>})
    /\ (Cargado /\ HojaConBasura)
         => Concatenar(Batches) = SelectSeq(CeldasParseadas, Completa4)

\* the line that was read last matches the nested, the standard extended,
\* the original format
EsAnidada == Anidada(line).ok
EsExtendida == Extendida(line).ok
EsOriginal == Original(line).ok

\* C28: the tuple parsed from a line is the one of the nested format when
\* the line matches it, else the one of the standard extended format when
\* the line matches that, else the one of the original format; a line that
\* matches the nested format and another one gives the 7 nested fields
C28_Precedencia ==
    (lpc \in {"lineas", "gen", "hecho", "roto"} /\ loader.ext = "txt" /\ n_linea > 0
       /\ line # << >>)
      => /\ EsAnidada => parsed = Anidada(line).g /\ Len(parsed) = 7
         /\ (~EsAnidada /\ EsExtendida) => parsed = Extendida(line).g
         /\ (~EsAnidada /\ ~EsExtendida /\ EsOriginal) => parsed = Original(line).g
         /\ (~EsAnidada /\ ~EsExtendida /\ ~EsOriginal) => parsed = Nulos7

\* a line that matches the nested and the standard extended format, which
\* give different tuples, was read and parsed as nested
C28_Testigo ==
    /\ lpc = "lineas" /\ n_linea > 0
    /\ line = LineaExtendida
    /\ EsAnidada /\ EsExtendida
    /\ Anidada(line).g # Extendida(line).g
    /\ parsed = Anidada(line).g

\* the text between the parentheses of a line in the original format, and
\* the places of its commas
Cuerpo == match_orig(line).g[2]
Comas == Posiciones(Cuerpo, ",")
SegundaComa == Minimo(Comas \ {Minimo(Comas)})

\* C29: a line in the original format gives 4 fields; with fewer than 3
\* comma-separated fields the missing last ones are null and the present
\* ones are text, and what follows the second comma is the last field whole
C29_RellenoNulo ==
    (lpc \in {"lineas", "gen", "hecho", "roto"} /\ loader.ext = "txt" /\ n_linea > 0
       /\ line # << >> /\ ~EsAnidada /\ ~EsExtendida /\ EsOriginal)
      => /\ Len(parsed) = 4
         /\ parsed[1] = Texto(match_orig(line).g[1])
         /\ \A k \in 1..3 : parsed[k + 1].nulo <=> k > Cardinality(Comas) + 1
         /\ Cardinality(Comas) >= 2
              => parsed[4] = Texto(strip(SubSeq(Cuerpo, SegundaComa + 1, Len(Cuerpo))))

\* a line with one field was read and parsed with two null fields, after a
\* line with four fields whose last two stayed together
C29_Testigo ==
    /\ lpc = "lineas"
    /\ line = LineaUnCampo
    /\ parsed = << Texto(<< "2" >>), Texto(<< "a" >>), Nulo, Nulo >>
    /\ \E k \in 1..Len(data) :
          data[k] = << Texto(<< "3" >>), Texto(<< "a" >>), Texto(<< "b" >>),
                       Texto(<< "a", ",", "b" >>) >>

\* the processes that have saved, and both are over
Guardaron == {r \in 1..2 : corridas[r].pendiente # << >>}
AmbasTerminadas == \A r \in 1..2 : corridas[r].pc = "fin"

\* C30: after two processes that ran at once against one checkpoint path,
\* the file holds exactly the checkpoint that one of them saved
C30_UltimoGana ==
    (AmbasTerminadas /\ Guardaron # {})
      => /\ Decodable(archivo)
         /\ \E r \in Guardaron : archivo.texto = corridas[r].pendiente

\* a store operation returns in this step: agregar_id_procesado, which is
\* one step, or the operation whose save has just been completed
VuelveAgregar == pc = "datos" /\ pc' = "datos" /\ gck' # gck
VuelveGuardado == pc = "escrito" /\ pc' # "escrito"

\* C31: when a store operation that changed the checkpoint in memory
\* returns, the file holds the text of that checkpoint
C31_GuardaAntesDeVolver ==
    [][/\ VuelveAgregar => archivo'.existe /\ archivo'.texto = json_dump(gck')
       /\ (VuelveGuardado /\ fase \in {"reset", "gestion"})
            => archivo'.existe /\ archivo'.texto = json_dump(gck')
       /\ (VuelveGuardado /\ fase \in {"flush", "final"})
            => archivo'.existe /\ archivo'.texto = json_dump(ck')]_vars

\* C32: every outcome that procesar_datos returns has the keys entidad1,
\* relacion and entidad2 beside id, validez and justificacion
C32_SeisCampos ==
    Retornado => \A k \in 1..Len(ret.res) : ret.res[k].campos

\* the rows of the current input that the file does not record
FaltanEnDisco == Filtrar(datos, IdsEnDisco(archivo))

\* C33: a completed run with limit M >= 1 over rows with pairwise distinct
\* identifiers, of which R were unprocessed when it began, has verified the
\* first min(M, R) of them, returns that number and leaves R - min(M, R)
\* unrecorded; so ceil(N/M) runs record all N rows and a run that begins
\* with none unprocessed returns 0
C33_AvancePorCorrida ==
    (/\ Retornado
     /\ legible
     /\ config.max_procesar >= 1
     /\ SinDuplicados(datos))
    => /\ ret.total = Min(config.max_procesar, Len(SinProcesar))
       /\ llamadas = [k \in 1..Min(config.max_procesar, Len(SinProcesar)) |->
                        Str(SinProcesar[k].id)]
       /\ Len(FaltanEnDisco)
            = Len(SinProcesar) - Min(config.max_procesar, Len(SinProcesar))

====
